---- MODULE Spec2Model ----
(***************************************************************************)
(* Macro-action catalogs of domains/cube/macros.py: the four namespaces    *)
(* primitive, expert, learned and random, the loader load_learned_macros   *)
(* and the seeded generator generate_random_macro_set, together with the   *)
(* shared generator of the standard random module they run against.        *)
(*                                                                         *)
(* domains/cube (the puzzle) and domains/cube/formula (the formula         *)
(* algebra) are collaborators whose code is not part of the sources; they  *)
(* are modelled from their documented interface, on a reduced puzzle.      *)
(***************************************************************************)
EXTENDS Integers, Sequences, FiniteSets, TLC

\* ---------------------------------------------------------------- bounds
\* Seeds passed to generate_random_macro_set are 0..MaxSeed.
MaxSeed == 2
\* Number of states of the shared generator (a full-period congruential
\* generator stands for the Mersenne Twister of the standard library).
RngMod == 8

Seeds == 0..MaxSeed
RngStates == 0..(RngMod - 1)

\* ------------------------------------------------ the shared generator
\* pyrandom.seed(seed): the state is a function of the seed alone.
SeedState(seed) == (7 * seed + 1) % RngMod
\* One draw of the generator: the value drawn and the state it leaves.
Output(r) == r
Step(r) == (5 * r + 3) % RngMod

\* ------------------------------------------------ the puzzle (domains.cube)
\* cube.actions: the primitive moves, in the domain's enumeration order.
cube_actions == <<"U", "D", "L", "R", "F", "B">>

Range(s) == {s[i] : i \in 1..Len(s)}

FaceOf(move) == CHOOSE i \in 1..Len(cube_actions) : cube_actions[i] = move

\* cube.Cube(): the fresh puzzle, every face unturned (quarter turns mod 4).
FreshCube == [i \in 1..Len(cube_actions) |-> 0]

\* A sequence the puzzle can apply holds primitive moves only.
WellFormed(sequence) == \A i \in 1..Len(sequence) : sequence[i] \in Range(cube_actions)

\* Cube.apply(sequence=...): the moves are applied left to right.
RECURSIVE Apply(_, _)
Apply(state, sequence) ==
    IF sequence = <<>> THEN state
    ELSE Apply([state EXCEPT ![FaceOf(Head(sequence))] = (@ + 1) % 4], Tail(sequence))

\* Cube.summarize_effects(): the faces that differ from the fresh puzzle,
\* each with its new value.
SummarizeEffects(state) ==
    {<<i, state[i]>> : i \in {j \in DOMAIN state : state[j] # FreshCube[j]}}

\* cube.Cube().apply(sequence=macro).summarize_effects()
EffectModel(macro) == SummarizeEffects(Apply(FreshCube, macro))

\* Mutant: the models are computed over the list in reverse.
Models_reversed(macros) ==
    [i \in 1..Len(macros) |-> EffectModel(macros[Len(macros) + 1 - i])]

\* [cube.Cube().apply(sequence=macro).summarize_effects() for macro in macros]
Models(macros) == [i \in 1..Len(macros) |-> EffectModel(macros[i])]

AllWellFormed(macros) == \A i \in 1..Len(macros) : WellFormed(macros[i])

\* ------------------------------------------- the formulas (cube.formula)
\* A formula is a sequence of steps; a step turns a face by 1, 2 or 3
\* quarter turns.
St(f, t) == [face |-> f, turns |-> t]

R_PERMUTATION == <<St(4, 1), St(1, 1), St(4, 3)>>
SWAP_3_EDGES_FACE == <<St(5, 1), St(1, 2)>>
SWAP_3_EDGES_MID == <<St(3, 1), St(6, 3)>>
SWAP_3_CORNERS == <<St(1, 3), St(2, 1), St(1, 1)>>
ORIENT_2_EDGES == <<St(2, 2)>>
ORIENT_2_CORNERS == <<St(6, 1), St(5, 3)>>

\* formula.simplify: adjacent steps on the same face merge, and a merged
\* step of no net turn disappears; repeated until nothing merges.
RECURSIVE simplify(_)
simplify(f) ==
    IF \E i \in 1..(Len(f) - 1) : f[i].face = f[i + 1].face
    THEN LET i == CHOOSE j \in 1..(Len(f) - 1) :
                      /\ f[j].face = f[j + 1].face
                      /\ \A k \in 1..(j - 1) : f[k].face # f[k + 1].face
             t == (f[i].turns + f[i + 1].turns) % 4
             merged == IF t = 0 THEN <<>> ELSE <<St(f[i].face, t)>>
         IN simplify(SubSeq(f, 1, i - 1) \o merged \o SubSeq(f, i + 2, Len(f)))
    ELSE f

\* The concrete move sequence of a formula: a step of t quarter turns is
\* the primitive move t times.
RECURSIVE Expand(_)
Expand(f) ==
    IF f = <<>> THEN <<>>
    ELSE [i \in 1..Head(f).turns |-> cube_actions[Head(f).face]] \o Expand(Tail(f))

\* The symmetry exchanging opposite faces (U/D, L/R, F/B).
Opposite(face) == IF face % 2 = 1 THEN face + 1 ELSE face - 1
Mirror(f) == [i \in 1..Len(f) |-> St(Opposite(f[i].face), f[i].turns)]

\* formula.variations: the formula itself, then its mirror image.
variations(f) == <<Expand(f), Expand(Mirror(f))>>

\* formula.random_formula(length), drawing from the shared generator in
\* state r: one draw per step. The result is the formula and the state left.
RECURSIVE random_formula(_, _)
random_formula(length, r) ==
    IF length = 0 THEN [formula |-> <<>>, rng |-> r]
    ELSE LET out == Output(r)
             step == St(((out \div 2) % Len(cube_actions)) + 1,
                        IF out % 2 = 0 THEN 1 ELSE 3)
             rest == random_formula(length - 1, Step(r))
         IN [formula |-> <<step>> \o rest.formula, rng |-> rest.rng]

\* The flat list [v for f in formulas for v in variations(f)].
RECURSIVE Flatten(_)
Flatten(lists) == IF lists = <<>> THEN <<>> ELSE Head(lists) \o Flatten(Tail(lists))

\* ------------------------------------------------------ the file system
results_dir == "results/macros/cube/"
Versions == {"0.4", "0.5"}
\* filename = results_dir+'v'+version+'-clean_skills.pickle'
Filename(version) == results_dir \o "v" \o version \o "-clean_skills.pickle"
Filenames == {Filename(v) : v \in Versions}

\* What open() and pickle.load() find at a path: no file, a file that
\* cannot be read, a file that is no pickle, or a pickled list of macros
\* (the last one holding a move the puzzle does not know).
File(kind, macros) == [kind |-> kind, macros |-> macros]
FileContents ==
    { File("missing", <<>>), File("denied", <<>>), File("corrupt", <<>>),
      File("list", <<>>),
      File("list", << <<"U", "R">>, <<"F", "F", "D">> >>),
      File("list", << <<"L">>, <<"U", "X">> >>) }

\* The exception open()/pickle.load() raise on a file, "" when none.
ReadError(file) ==
    CASE file.kind = "missing" -> "FileNotFoundError"
      [] file.kind = "denied" -> "PermissionError"
      [] file.kind = "corrupt" -> "UnpicklingError"
      [] OTHER -> ""

\* The names bound in the module's global scope: its imports and its
\* own classes and functions.
ModuleGlobals ==
    { "pickle", "pyrandom", "cube", "formula", "primitive", "expert", "learned",
      "load_learned_macros", "random", "generate_random_macro_set", "test" }

VARIABLES
    rng,        \* state of the shared generator of the random module
    files,      \* the file system: what each path of Filenames holds
    imported,   \* the module body ran to its end
    primitive,  \* class primitive: its attributes
    expert,     \* class expert
    learned,    \* class learned
    random,     \* class random
    stderr,     \* warnings emitted so far
    call,       \* the last operation, its argument and how it ended
    generated   \* history: per seed, the catalog its first normal return left

vars == <<rng, files, imported, primitive, expert, learned, random, stderr, call, generated>>

NoAttrs == <<>>
Call(op, version, seed, outcome) ==
    [op |-> op, version |-> version, seed |-> seed, outcome |-> outcome]

\* ------------------------------------------------- class primitive, expert
\* Mutant: every move is entered twice in its sequence.
PrimitiveAlgFormulas_doubled ==
    [i \in 1..Len(cube_actions) |-> <<cube_actions[i], cube_actions[i]>>]

\* alg_formulas = [[a] for a in cube.actions]
PrimitiveAlgFormulas == [i \in 1..Len(cube_actions) |-> <<cube_actions[i]>>]

PrimitiveClass ==
    [alg_formulas |-> PrimitiveAlgFormulas,
     actions |-> PrimitiveAlgFormulas,
     models |-> Models(PrimitiveAlgFormulas)]

ExpertAlgFormulas ==
    << R_PERMUTATION, SWAP_3_EDGES_FACE, SWAP_3_EDGES_MID,
       SWAP_3_CORNERS, ORIENT_2_EDGES, ORIENT_2_CORNERS >>

\* macros = [variation for f in alg_formulas for variation in formula.variations(f)]
ExpertMacros(alg_formulas) ==
    Flatten([i \in 1..Len(alg_formulas) |-> variations(alg_formulas[i])])

ExpertClass ==
    [alg_formulas |-> ExpertAlgFormulas,
     macros |-> ExpertMacros(ExpertAlgFormulas),
     models |-> Models(ExpertMacros(ExpertAlgFormulas))]

\* ------------------------------------------------- load_learned_macros
\* Mutant: a bare except, catching every exception.
Caught_any(exc) == TRUE

\* except FileNotFoundError: the one exception the handler catches.
Caught(exc) == exc = "FileNotFoundError"

\* warning(...) in the handler: a call of a global name.
WarningDefined == "warning" \in ModuleGlobals

WarningText(filename) == "Failed to load learned macros from file " \o filename

\* The whole of load_learned_macros(version) on the namespace old and the
\* warnings err: how it ends, and the namespace and warnings it leaves.
LoadLearned(version, old, err) ==
    LET filename == Filename(version)
        exc == ReadError(files[filename])
    IN  IF exc # "" /\ ~Caught(exc)
        THEN [outcome |-> exc, learned |-> old, stderr |-> err]
        ELSE IF exc # "" /\ ~WarningDefined
        THEN [outcome |-> "NameError", learned |-> old, stderr |-> err]
        ELSE LET _macros == IF exc # "" THEN <<>> ELSE files[filename].macros
                 err2 == IF exc # "" THEN Append(err, WarningText(filename)) ELSE err
             IN  IF ~AllWellFormed(_macros)
                 THEN [outcome |-> "DomainApplicationFailure", learned |-> old, stderr |-> err2]
                 ELSE [outcome |-> "ok",
                       learned |-> [macros |-> _macros, models |-> Models(_macros)],
                       stderr |-> err2]

\* --------------------------------------------- generate_random_macro_set
\* Where a collaborator raises during one call: nowhere, in the k-th call
\* of formula.random_formula, in formula.simplify, in formula.variations,
\* or in the puzzle while the models are computed.
Fault(at, k) == [at |-> at, k |-> k]
NoFault == Fault("none", 0)
Faults ==
    {NoFault}
    \cup {Fault("random_formula", k) : k \in 1..Len(ExpertAlgFormulas)}
    \cup {Fault(at, 0) : at \in {"simplify", "variations", "summarize_effects"}}

\* old_state = pyrandom.getstate()
GetState(r) == r

\* Mutant: the generator is not reseeded.
Reseed_ambient(seed, r) == r

\* pyrandom.seed(seed)
Reseed(seed, r) == SeedState(seed)

\* Mutant: the saved state is not put back.
SetState_skipped(old_state, r) == r

\* pyrandom.setstate(old_state)
SetState(old_state, r) == old_state

\* The length asked of formula.random_formula for the expert formula alg.
RequestedLength(alg) == Len(alg)

\* random_formulas = [formula.random_formula(len(alg)) for alg in expert.alg_formulas]
\* from the i-th formula on, the generator being in state r; the k-th call
\* raises when fault says so, and the list is then never built.
RECURSIVE RandomFormulas(_, _, _, _)
RandomFormulas(algs, i, r, fault) ==
    IF i > Len(algs) THEN [raised |-> FALSE, formulas |-> <<>>, rng |-> r]
    ELSE IF fault.at = "random_formula" /\ fault.k = i
    THEN [raised |-> TRUE, formulas |-> <<>>, rng |-> r]
    ELSE LET one == random_formula(RequestedLength(algs[i]), r)
             rest == RandomFormulas(algs, i + 1, one.rng, fault)
         IN [raised |-> rest.raised,
             formulas |-> IF rest.raised THEN <<>> ELSE <<one.formula>> \o rest.formulas,
             rng |-> rest.rng]

\* Mutant: the formulas are expanded without being simplified.
RandomMacros_unsimplified(random_formulas) ==
    Flatten([i \in 1..Len(random_formulas) |-> variations(random_formulas[i])])

\* _macros = [variation for formula_ in random_formulas
\*            for variation in formula.variations(formula.simplify(formula_))]
RandomMacros(random_formulas) ==
    Flatten([i \in 1..Len(random_formulas) |-> variations(simplify(random_formulas[i]))])

\* Mutant: random.seed is assigned on entry, before anything can raise.
RandomWhenRaised_seedFirst(seed, old) ==
    IF old = NoAttrs THEN old ELSE [old EXCEPT !.seed = seed]

\* The attributes of class random when the call raises before its four
\* assignments: the assignments are the last statements of the function.
RandomWhenRaised(seed, old) == old

\* random.seed = seed; random.alg_formulas = random_formulas;
\* random.macros = _macros; random.models = _models
RandomAssigned(seed, random_formulas, _macros, _models) ==
    [seed |-> seed, alg_formulas |-> random_formulas, macros |-> _macros, models |-> _models]

\* The whole of generate_random_macro_set(seed), the shared generator being
\* in state r and class random holding old: how it ends, the generator
\* state and the attributes it leaves.
GenerateRandom(seed, fault, r, old, algs) ==
    LET old_state == GetState(r)
        synth == RandomFormulas(algs, 1, Reseed(seed, r), fault)
    IN  IF synth.raised
        THEN [outcome |-> "FormulaSynthesisFailure", rng |-> synth.rng,
              random |-> RandomWhenRaised(seed, old)]
        ELSE LET restored == SetState(old_state, synth.rng)
                 _macros == RandomMacros(synth.formulas)
             IN  IF fault.at \in {"simplify", "variations"}
                 THEN [outcome |-> "FormulaError", rng |-> restored,
                       random |-> RandomWhenRaised(seed, old)]
                 ELSE IF fault.at = "summarize_effects" \/ ~AllWellFormed(_macros)
                 THEN [outcome |-> "DomainApplicationFailure", rng |-> restored,
                       random |-> RandomWhenRaised(seed, old)]
                 ELSE [outcome |-> "ok", rng |-> restored,
                       random |-> RandomAssigned(seed, synth.formulas, _macros, Models(_macros))]

\* History: the catalog of the first normal return of each seed.
Remember(hist, seed, res) ==
    IF res.outcome = "ok" /\ hist[seed] = NoAttrs
    THEN [hist EXCEPT ![seed] = res.random]
    ELSE hist

\* ------------------------------------------------------------ the program
\* Before the module is imported: no class exists, the generator of the
\* random module is in any state, the file system holds anything.
Init ==
    /\ rng \in RngStates
    /\ files \in [Filenames -> FileContents]
    /\ imported = FALSE
    /\ primitive = NoAttrs
    /\ expert = NoAttrs
    /\ learned = NoAttrs
    /\ random = NoAttrs
    /\ stderr = <<>>
    /\ call = Call("none", "", 0, "ok")
    /\ generated = [s \in Seeds |-> NoAttrs]

\* The module body: the classes primitive and expert, class learned and
\* load_learned_macros('0.4'), class random and generate_random_macro_set(0).
\* An exception in either call ends the import and the module is not bound.
ImportModule(fault) ==
    /\ ~imported
    /\ call.op = "none"
    /\ \E load \in {LoadLearned("0.4", NoAttrs, stderr)},
          gen \in {GenerateRandom(0, fault, rng, NoAttrs, ExpertClass.alg_formulas)} :
           IF load.outcome # "ok"
           THEN /\ call' = Call("import", "0.4", 0, load.outcome)
                /\ stderr' = load.stderr
                /\ UNCHANGED <<rng, imported, primitive, expert, learned, random, generated>>
           ELSE IF gen.outcome # "ok"
           THEN /\ call' = Call("import", "0.4", 0, gen.outcome)
                /\ stderr' = load.stderr
                /\ rng' = gen.rng
                /\ UNCHANGED <<imported, primitive, expert, learned, random, generated>>
           ELSE /\ call' = Call("import", "0.4", 0, "ok")
                /\ stderr' = load.stderr
                /\ rng' = gen.rng
                /\ imported' = TRUE
                /\ primitive' = PrimitiveClass
                /\ expert' = ExpertClass
                /\ learned' = load.learned
                /\ random' = gen.random
                /\ generated' = Remember(generated, 0, gen)
    /\ UNCHANGED files

\* A caller runs load_learned_macros(version).
LoadLearnedMacros(version) ==
    /\ imported
    /\ \E load \in {LoadLearned(version, learned, stderr)} :
           /\ call' = Call("load", version, 0, load.outcome)
           /\ learned' = load.learned
           /\ stderr' = load.stderr
    /\ UNCHANGED <<rng, files, imported, primitive, expert, random, generated>>

\* A caller runs generate_random_macro_set(seed).
GenerateRandomMacroSet(seed, fault) ==
    /\ imported
    /\ \E gen \in {GenerateRandom(seed, fault, rng, random, expert.alg_formulas)} :
           /\ call' = Call("generate", "", seed, gen.outcome)
           /\ rng' = gen.rng
           /\ random' = gen.random
           /\ generated' = Remember(generated, seed, gen)
    /\ UNCHANGED <<files, imported, primitive, expert, learned, stderr>>

\* Unrelated code draws once from the shared generator.
Draw ==
    /\ rng' = Step(rng)
    /\ call' = Call("draw", "", 0, "ok")
    /\ UNCHANGED <<files, imported, primitive, expert, learned, random, stderr, generated>>

Next ==
    \/ \E fault \in Faults : ImportModule(fault)
    \/ \E version \in Versions : LoadLearnedMacros(version)
    \/ \E seed \in Seeds, fault \in Faults : GenerateRandomMacroSet(seed, fault)
    \/ Draw

Spec == Init /\ [][Next]_vars

\* ================================================================ claims

\* The generator state the synthesis of the formulas for seed leaves behind.
AfterSynthesis(seed) ==
    RandomFormulas(ExpertAlgFormulas, 1, SeedState(seed), NoFault).rng

\* A step that is a call of generate_random_macro_set (the import runs one
\* too, with seed 0) and returns normally.
GenerateReturns == call'.op \in {"generate", "import"} /\ call'.outcome = "ok"

\* C1: a call of generate_random_macro_set that returns leaves the shared
\* generator in the state it had on entry, whatever the seed and the state.
C1_GeneratorRestoredOnReturn == [][GenerateReturns => rng' = rng]_vars

\* A call with seed 1 has returned and the generator is in neither the
\* state the seed sets nor the state the synthesis leaves.
C1_Witness ==
    /\ call = Call("generate", "", 1, "ok")
    /\ rng \notin {SeedState(1), AfterSynthesis(1)}

\* C2: whenever class random holds a catalog, it is the catalog the first
\* normal return for that seed left, whatever was drawn, loaded or
\* generated (for this or other seeds) in between.
C2_Reproducible ==
    random # NoAttrs => random = generated[random.seed]

\* Seed 0 is generated again after the import and after seed 1.
C2_Witness ==
    /\ generated[1] # NoAttrs
    /\ call = Call("generate", "", 0, "ok")
    /\ random.seed = 0
    /\ rng # SeedState(0)

\* C3: load_learned_macros on a version whose file is missing returns
\* normally, has emitted a warning naming the path, and leaves
\* learned.macros == [] and learned.models == [].
C3_MissingFileTolerated ==
    (call.op = "load" /\ files[Filename(call.version)].kind = "missing")
        => /\ call.outcome = "ok"
           /\ learned = [macros |-> <<>>, models |-> <<>>]
           /\ stderr # <<>>
           /\ stderr[Len(stderr)] = WarningText(Filename(call.version))

Aligned(macros, models) ==
    /\ Len(macros) = Len(models)
    /\ \A i \in 1..Len(macros) : models[i] = EffectModel(macros[i])

\* C4: once the module is imported, and after any calls of the loader and
\* the generator whether they return or raise, each of the four catalogs
\* has as many models as macros and its i-th model is the effect of its
\* i-th macro on a fresh puzzle (the macro list of class primitive is its
\* attribute actions).
C4_Alignment ==
    imported =>
        /\ Aligned(primitive.actions, primitive.models)
        /\ Aligned(expert.macros, expert.models)
        /\ Aligned(learned.macros, learned.models)
        /\ Aligned(random.macros, random.models)

\* A load has just raised in the puzzle, over a non-empty learned catalog
\* and a random catalog rebuilt for another seed than the import's.
C4_Witness ==
    /\ imported
    /\ call.op = "load" /\ call.outcome = "DomainApplicationFailure"
    /\ Len(learned.macros) > 0
    /\ random.seed # 0

\* C5: on every exit of generate_random_macro_set, normal or by an
\* exception, the shared generator is in the state it had on entry.
C5_RestoredOnEveryExit == [][call'.op = "generate" => rng' = rng]_vars

\* C6: a call of generate_random_macro_set either returns and class random
\* holds the seed and the catalog of that seed, or raises and class random
\* is as it was before the call.
C6_AllOrNothing ==
    [][call'.op = "generate" =>
          IF call'.outcome = "ok"
          THEN /\ random'.seed = call'.seed
               /\ random' = generated'[call'.seed]
          ELSE random' = random]_vars

\* A call has raised and class random still holds the catalog of another
\* seed than the one the call was given.
C6_Witness ==
    /\ call.op = "generate" /\ call.outcome # "ok"
    /\ random.seed # call.seed

\* The error load_learned_macros(version) meets that is not a missing
\* file: the read error of the file, or the puzzle's on a malformed macro;
\* "" when it meets none.
OtherLoadError(version) ==
    LET file == files[Filename(version)]
    IN  IF file.kind \in {"denied", "corrupt"} THEN ReadError(file)
        ELSE IF file.kind = "list" /\ ~AllWellFormed(file.macros)
        THEN "DomainApplicationFailure"
        ELSE ""

\* C7: when the file exists and reading or unpickling it fails, or a
\* loaded macro cannot be applied, load_learned_macros raises that very
\* error, emits no warning and leaves class learned as it was.
C7_OnlyMissingFileRecovered ==
    [][(call'.op = "load" /\ OtherLoadError(call'.version) # "") =>
          /\ call'.outcome = OtherLoadError(call'.version)
          /\ learned' = learned
          /\ stderr' = stderr]_vars

\* A load of a file that is no pickle has raised over a non-empty catalog.
C7_Witness ==
    /\ call.op = "load" /\ call.outcome = "UnpicklingError"
    /\ Len(learned.macros) > 0

\* C9: the macro list of class primitive (its attribute actions) has one
\* length-1 sequence per primitive move, in the order of cube.actions and
\* without duplicates, six of them in the order U, D, L, R, F, B for these
\* six moves; and class primitive never changes once the module is imported.
C9_PrimitiveComplete ==
    /\ [](imported =>
            /\ Len(primitive.actions) = Len(cube_actions)
            /\ \A i \in 1..Len(cube_actions) : primitive.actions[i] = <<cube_actions[i]>>
            /\ \A i, j \in 1..Len(primitive.actions) :
                   i # j => primitive.actions[i] # primitive.actions[j]
            /\ (cube_actions = <<"U", "D", "L", "R", "F", "B">>
                   => primitive.actions = << <<"U">>, <<"D">>, <<"L">>, <<"R">>, <<"F">>, <<"B">> >>))
    /\ [][imported => primitive' = primitive]_vars

\* The module is imported and both rebuild operations have run since.
C9_Witness ==
    /\ imported
    /\ Len(primitive.actions) = Len(cube_actions)
    /\ call.op = "load" /\ call.outcome = "ok"
    /\ random.seed # 0

\* The number of macros in the blocks before block i.
RECURSIVE Offset(_, _)
Offset(blocks, i) == IF i = 1 THEN 0 ELSE Offset(blocks, i - 1) + Len(blocks[i - 1])

\* flat is the blocks laid end to end, block i before block i+1.
BlockWise(flat, blocks) ==
    /\ Len(flat) = Offset(blocks, Len(blocks) + 1)
    /\ \A i \in 1..Len(blocks) : \A j \in 1..Len(blocks[i]) :
           flat[Offset(blocks, i) + j] = blocks[i][j]

\* C10: random.alg_formulas has one formula per expert formula, the i-th
\* of the length of the i-th expert formula; random.macros is, block after
\* block in that order, the variations of the simplified i-th formula; and
\* expert.macros is, in the same way, the variations of the expert
\* formulas, not simplified.
C10_FormulaThenVariation ==
    imported =>
        /\ Len(random.alg_formulas) = Len(expert.alg_formulas)
        /\ \A i \in 1..Len(expert.alg_formulas) :
               Len(random.alg_formulas[i]) = Len(expert.alg_formulas[i])
        /\ BlockWise(random.macros,
                     [i \in 1..Len(random.alg_formulas) |->
                          variations(simplify(random.alg_formulas[i]))])
        /\ BlockWise(expert.macros,
                     [i \in 1..Len(expert.alg_formulas) |->
                          variations(expert.alg_formulas[i])])

\* The generator has returned with a formula that simplification changes.
C10_Witness ==
    /\ call.op = "generate" /\ call.outcome = "ok"
    /\ \E i \in 1..Len(random.alg_formulas) :
           simplify(random.alg_formulas[i]) # random.alg_formulas[i]

====
